---- MODULE Spec2Model ----
(***************************************************************************)
(* Model of the image generator of AI-DIPAK-: the request client           *)
(* generateImage and the Generator controller (handleGenerate,             *)
(* handleSelectKey, the mount effect), with the account store, the history *)
(* store, the credential provider (window.aistudio) and the image service  *)
(* as environment.                                                         *)
(***************************************************************************)
EXTENDS Integers, Sequences, FiniteSets, TLC

\* ------------------------------------------------------------- bounds
\* Longest part list of a service response.
MaxParts == 3
\* Largest initial credit balance, and an initial balance below the cost.
MaxCredits == 20
LowCredits == 5
\* Number of submit events of a run.
MaxSubmits == 2

\* ---------------------------------------------------- program constants
\* IMAGE_COST of ../constants.
IMAGE_COST == 10
ModelName == "gemini-3-pro-image-preview"
DataUriPrefix == "data:image/png;base64,"
NoImageMessage == "No image generated in response"
NotFoundText == "Requested entity was not found"
NotEnoughMessage == "Not enough credits. You need 10 credits to generate an image."
FailedMessage == "Failed to generate image. Please try again or check your API key settings."
\* Two of the sizes '1K' | '2K' | '4K'.
Sizes == {"1K", "4K"}

\* JavaScript's null / undefined / an absent message.
Null == "<null>"
\* What a dereference of undefined throws.
TypeErrorMessage == "TypeError: Cannot read properties of undefined"

\* ------------------------------------------------------ environment data
Prompts == {"", "a cat"}
UserId == "u1"
Payloads == {"iVBORw0K", "R0lGODlh"}
\* The parts a response may carry: text, or an inline image payload.
Parts ==
    {[text |-> "here is your image"]}
        \cup {[inlineData |-> [mimeType |-> "image/png", data |-> d]] : d \in Payloads}
PartLists == UNION {[1..n -> Parts] : n \in 0..MaxParts}
\* The responses of generateContent: no candidates field, an empty candidate
\* list, a candidate without content, a content without parts, a part list.
Responses ==
    {[promptFeedback |-> "blocked"]}
        \cup {[candidates |-> <<>>]}
        \cup {[candidates |-> <<[finishReason |-> "SAFETY"]>>]}
        \cup {[candidates |-> <<[content |-> [role |-> "model"]]>>]}
        \cup {[candidates |-> <<[content |-> [parts |-> ps]]>>] : ps \in PartLists}
\* What the SDK call itself throws (network, authentication, quota).
UpstreamErrors == {"fetch failed", "API key not valid"}
\* The outcome of one generateContent call.
ServiceOutcomes ==
    {[kind |-> "response", response |-> r, error |-> Null] : r \in Responses}
        \cup {[kind |-> "throw", response |-> [promptFeedback |-> "blocked"], error |-> e] :
                e \in UpstreamErrors}
\* The store operation that throws in a submission, if any.
StoreFaults == {"none", "debit", "history"}
\* What openSelectKey rejects with.
SelectErrors == {"Requested entity was not found.", "User cancelled"}
\* window.aistudio: undefined, or an object with some of its two methods.
AiStudios == {{"undefined"}} \cup {{"object"} \cup m : m \in SUBSET {"hasSelectedApiKey", "openSelectKey"}}

\* ------------------------------------------------------- request client
\* String.prototype.includes.
Includes(s, sub) ==
    \E i \in 1..(Len(s) - Len(sub) + 1) : SubSeq(s, i, i + Len(sub) - 1) = sub

\* The template literal of the image reference.
DataUri(base64EncodeString) == DataUriPrefix \o base64EncodeString

\* The for loop over the parts, from part i on: the reference of the first part
\* with inlineData (break), '' when there is none.
RECURSIVE ScanFrom(_, _)
ScanFrom(parts, i) ==
    IF i > Len(parts) THEN ""
    ELSE IF "inlineData" \in DOMAIN parts[i] THEN DataUri(parts[i].inlineData.data)
    ELSE ScanFrom(parts, i + 1)

\* The same loop without its break: the last image part wins.
RECURSIVE ScanNoBreak(_, _)
ScanNoBreak(parts, acc) ==
    IF parts = <<>> THEN acc
    ELSE ScanNoBreak(Tail(parts),
                     IF "inlineData" \in DOMAIN Head(parts)
                     THEN DataUri(Head(parts).inlineData.data) ELSE acc)
ScanPartsLast(parts) == ScanNoBreak(parts, "")

ScanParts(parts) == ScanFrom(parts, 1)

Returned(url) == [ok |-> TRUE, imageUrl |-> url, error |-> Null]
Thrown(message) == [ok |-> FALSE, imageUrl |-> Null, error |-> message]
NoResult == [ok |-> FALSE, imageUrl |-> Null, error |-> Null]

\* What generateImage makes of a response: the if over candidates and parts,
\* the loop, the throw of an empty imageUrl.  candidates[0] of an empty list
\* and content of a candidate without one are undefined, and the property
\* read on them throws a TypeError.
ParseResponse(response) ==
    IF "candidates" \notin DOMAIN response THEN Thrown(NoImageMessage)
    ELSE IF response.candidates = <<>> THEN Thrown(TypeErrorMessage)
    ELSE IF "content" \notin DOMAIN response.candidates[1] THEN Thrown(TypeErrorMessage)
    ELSE IF "parts" \notin DOMAIN response.candidates[1].content THEN Thrown(NoImageMessage)
    ELSE LET imageUrl == ScanParts(response.candidates[1].content.parts)
         IN  IF imageUrl = "" THEN Thrown(NoImageMessage) ELSE Returned(imageUrl)

\* generateImage on the outcome of its generateContent call: an error of the
\* call is caught, logged and rethrown as it is.
GenerateImage(outcome) ==
    IF outcome.kind = "throw" THEN Thrown(outcome.error)
    ELSE ParseResponse(outcome.response)

\* Every way generateImage can settle.
ClientResults == {GenerateImage(outcome) : outcome \in ServiceOutcomes}

\* ------------------------------------------------------------ the state
VARIABLES
    prompt,          \* useState(''): the textarea
    size,            \* useState('1K'): the chosen resolution
    isGenerating,    \* useState(false): the busy flag
    generatedImage,  \* useState(null): the displayed image reference
    error,           \* useState(''): the displayed message
    user,            \* useState(null): the account as the controller holds it
    hasApiKey,       \* useState(false): a credential is selected
    aistudio,        \* window.aistudio
    account,         \* the account store's record of the current user
    history,         \* the history store
    keyCheck,        \* the mount effect: "unmounted", "awaiting", "done"
    h,               \* the handler invocations
    submitted,       \* submit events handled so far
    settled,         \* what the latest step settled: an awaited call, an invocation
    bypassed,        \* a submit event has reached handleGenerate past an inert button
    client           \* a generateImage call made on its own

vars == <<prompt, size, isGenerating, generatedImage, error, user, hasApiKey,
          aistudio, account, history, keyCheck, h, submitted, settled, bypassed,
          client>>

NoUser == [null |-> TRUE]
User(credits) == [id |-> UserId, credits |-> credits]
InitialBalances == {0, LowCredits, IMAGE_COST, MaxCredits}

\* Invocation 0 is the "Select API Key" button's handleSelectKey; invocation n
\* of 1..MaxSubmits is the handleGenerate of the n-th submit event.
Slots == 1..MaxSubmits
Flows == {0} \cup Slots

\* An invocation: where it stands ("idle": not running), the prompt and size of
\* its closure and the openSelectKey calls it has made.
IdleFlow == [pc |-> "idle", prompt |-> "", size |-> "1K", selCalls |-> 0]

IdleClient ==
    [phase |-> "idle", request |-> [null |-> TRUE], outcome |-> [null |-> TRUE],
     result |-> NoResult]

Init ==
    /\ prompt = ""
    /\ size = "1K"
    /\ isGenerating = FALSE
    /\ generatedImage = Null
    /\ error = ""
    /\ user = NoUser
    /\ hasApiKey = FALSE
    /\ aistudio \in AiStudios
    /\ account \in {NoUser} \cup {User(c) : c \in InitialBalances}
    /\ history = <<>>
    /\ keyCheck = "unmounted"
    /\ h = [p \in Flows |-> IdleFlow]
    /\ submitted = 0
    /\ settled = "none"
    /\ bypassed = FALSE
    /\ client = IdleClient

\* ------------------------------------------------------ external stores
\* updateUserCredits(id, amount, 'subtract') of the account store: the balance
\* never goes below zero.
UpdateUserCredits(acct, amount) ==
    [acct EXCEPT !.credits = IF @ >= amount THEN @ - amount ELSE 0]

\* saveImage of the history store: one more entry.
SaveImage(log, userId, p, imageUrl, modelId, s) ==
    Append(log, [userId |-> userId, prompt |-> p, imageUrl |-> imageUrl,
                 model |-> modelId, size |-> s])

\* The Button component: inert while loading or disabled.
ButtonInert(isLoading, disabled) == isLoading \/ disabled

\* ------------------------------------------------------- the controller
\* A gate that only turns away a negative balance.
CreditGateNegative(u) == u.credits < 0

\* The credit gate of handleGenerate.
CreditGate(u) == u.credits < IMAGE_COST

\* The condition under which handleGenerate awaits handleSelectKey.
NeedsKeySelection(has, ai) == ~has /\ "object" \in ai

\* A catch that compares the whole message instead of searching it.
IsNotFoundExact(e) == e = NotFoundText

\* The catch of handleSelectKey: the error asks for another selection.
IsNotFound(e) == e # Null /\ Includes(e, NotFoundText)

\* A handler that leaves the busy flag alone.
BusyNeverSet == FALSE

\* The value handleGenerate gives the busy flag before the call.
BusyOnStart == TRUE

\* The disabled property of the submit button.
DisabledProp ==
    \/ (~hasApiKey /\ "object" \in aistudio)
    \/ (user # NoUser /\ user.credits < IMAGE_COST)

\* The part of the controller's state the continuation of handleGenerate works on.
Outcome(img, err, u, acct, log, stage) ==
    [generatedImage |-> img, error |-> err, user |-> u, account |-> acct,
     history |-> log, stage |-> stage]

\* A continuation that hands saveImage the prompt and size of the latest render
\* instead of those of its closure.
SettleCurrentInputs(f, result, fault) ==
    LET updated == UpdateUserCredits(account, IMAGE_COST)
    IN  IF ~result.ok
        THEN Outcome(generatedImage, FailedMessage, user, account, history, "generate")
        ELSE IF fault = "debit"
        THEN Outcome(result.imageUrl, FailedMessage, user, account, history, "debit")
        ELSE IF fault = "history"
        THEN Outcome(result.imageUrl, FailedMessage, updated, updated, history, "history")
        ELSE Outcome(result.imageUrl, error, updated, updated,
                     SaveImage(history, UserId, prompt, result.imageUrl, ModelName, size),
                     "success")

\* A continuation that debits in the finally block, whatever generateImage did.
SettleDebitAlways(f, result, fault) ==
    LET updated == UpdateUserCredits(account, IMAGE_COST)
    IN  IF ~result.ok
        THEN Outcome(generatedImage, FailedMessage, updated, updated, history, "generate")
        ELSE IF fault = "debit"
        THEN Outcome(result.imageUrl, FailedMessage, user, account, history, "debit")
        ELSE IF fault = "history"
        THEN Outcome(result.imageUrl, FailedMessage, updated, updated, history, "history")
        ELSE Outcome(result.imageUrl, error, updated, updated,
                     SaveImage(history, UserId, f.prompt, result.imageUrl, ModelName, f.size),
                     "success")

\* The continuation of handleGenerate once generateImage has settled: the rest
\* of the try block and the catch, as the state they leave.  stage names the
\* step that threw ("success": none did); fault names the store operation that
\* throws when it is reached ("none": neither).
Settle(f, result, fault) ==
    LET updated == UpdateUserCredits(account, IMAGE_COST)
    IN  IF ~result.ok
        THEN Outcome(generatedImage, FailedMessage, user, account, history, "generate")
        ELSE IF fault = "debit"
        THEN Outcome(result.imageUrl, FailedMessage, user, account, history, "debit")
        ELSE IF fault = "history"
        THEN Outcome(result.imageUrl, FailedMessage, updated, updated, history, "history")
        ELSE Outcome(result.imageUrl, error, updated, updated,
                     SaveImage(history, UserId, f.prompt, result.imageUrl, ModelName, f.size),
                     "success")

\* --------------------------------------------------------------- actions
\* Variables no handler of the controller writes.
Environment == <<aistudio, client>>
Others == <<submitted, bypassed>>
Stores == <<account, history>>
Inputs == <<prompt, size>>

\* The mount effect: the current user is read from storage, and checkKey runs
\* as far as its await (without hasSelectedApiKey it marks a key as selected).
Mount ==
    /\ keyCheck = "unmounted"
    /\ settled' = "none"
    /\ user' = account
    /\ IF "object" \in aistudio /\ "hasSelectedApiKey" \in aistudio
       THEN keyCheck' = "awaiting" /\ UNCHANGED hasApiKey
       ELSE keyCheck' = "done" /\ hasApiKey' = TRUE
    /\ UNCHANGED <<Inputs, isGenerating, generatedImage, error, Environment, Stores, h,
                   Others>>

\* hasSelectedApiKey resolves.
CheckKeyResolve(hasKey) ==
    /\ keyCheck = "awaiting"
    /\ settled' = "none"
    /\ keyCheck' = "done"
    /\ hasApiKey' = hasKey
    /\ UNCHANGED <<Inputs, isGenerating, generatedImage, error, user, Environment, Stores,
                   h, Others>>

\* hasSelectedApiKey rejects: logged, nothing set.
CheckKeyReject ==
    /\ keyCheck = "awaiting"
    /\ settled' = "none"
    /\ keyCheck' = "done"
    /\ UNCHANGED <<Inputs, isGenerating, generatedImage, error, user, hasApiKey,
                   Environment, Stores, h, Others>>

\* The textarea's onChange and the resolution buttons' onClick.
SetPrompt(text) ==
    /\ keyCheck # "unmounted"
    /\ settled' = "none"
    /\ prompt # text
    /\ prompt' = text
    /\ UNCHANGED <<size, isGenerating, generatedImage, error, user, hasApiKey,
                   Environment, Stores, keyCheck, h, Others>>

SetSize(s) ==
    /\ keyCheck # "unmounted"
    /\ settled' = "none"
    /\ size # s
    /\ size' = s
    /\ UNCHANGED <<prompt, isGenerating, generatedImage, error, user, hasApiKey,
                   Environment, Stores, keyCheck, h, Others>>

\* handleGenerate from setIsGenerating(true) to the await of generateImage.
Proceed(p, f) ==
    /\ isGenerating' = BusyOnStart
    /\ error' = ""
    /\ generatedImage' = Null
    /\ h' = [h EXCEPT ![p] = [f EXCEPT !.pc = "generating", !.selCalls = 0]]

\* handleSelectKey has returned in invocation p: handleGenerate goes on, the
\* button's own invocation ends.
AfterSelect(p, f) ==
    IF p \in Slots
    THEN Proceed(p, f)
    ELSE /\ h' = [h EXCEPT ![p] = IdleFlow]
         /\ UNCHANGED <<isGenerating, error, generatedImage>>

\* handleSelectKey as far as its await: openSelectKey is called when aistudio
\* has it; otherwise nothing is done.
EnterSelect(p, f) ==
    IF "object" \in aistudio /\ "openSelectKey" \in aistudio
    THEN /\ h' = [h EXCEPT ![p] = [f EXCEPT !.pc = "selecting", !.selCalls = @ + 1]]
         /\ UNCHANGED <<isGenerating, error, generatedImage>>
    ELSE AfterSelect(p, f)

\* A submit event reaches handleGenerate: no user, the credit gate, the
\* credential gate, the start of the generation.  The submit button is inert
\* while loading or disabled, and the required textarea holds back a click
\* while it is empty.
Submit(p) ==
    /\ p \in Slots
    /\ keyCheck # "unmounted"
    /\ p = submitted + 1
    /\ submitted' = p
    /\ bypassed' = (bypassed \/ ButtonInert(isGenerating, DisabledProp) \/ prompt = "")
    /\ LET f == [IdleFlow EXCEPT !.prompt = prompt, !.size = size]
       IN  IF user = NoUser
           THEN /\ settled' = "nouser"
                /\ UNCHANGED <<isGenerating, error, generatedImage, h>>
           ELSE IF CreditGate(user)
           THEN /\ error' = NotEnoughMessage
                /\ settled' = "rejected"
                /\ UNCHANGED <<isGenerating, generatedImage, h>>
           ELSE IF NeedsKeySelection(hasApiKey, aistudio)
           THEN EnterSelect(p, f) /\ settled' = "none"
           ELSE Proceed(p, f) /\ settled' = "none"
    /\ UNCHANGED <<Inputs, user, hasApiKey, Environment, Stores, keyCheck>>

\* A click on "Select API Key", shown while no key is selected.
SelectKeyClick ==
    /\ keyCheck # "unmounted"
    /\ settled' = "none"
    /\ ~hasApiKey /\ "object" \in aistudio
    /\ h[0].pc = "idle"
    /\ EnterSelect(0, IdleFlow)
    /\ UNCHANGED <<Inputs, user, hasApiKey, Environment, Stores, keyCheck, Others>>

\* openSelectKey resolves: the key is taken as selected.
SelectResolve(p) ==
    /\ h[p].pc = "selecting"
    /\ hasApiKey' = TRUE
    /\ settled' = "resolved"
    /\ AfterSelect(p, h[p])
    /\ UNCHANGED <<Inputs, user, Environment, Stores, keyCheck, Others>>

\* openSelectKey rejects with e: "not found" asks again (a second
\* openSelectKey); any other error is logged and handleSelectKey returns.
SelectReject(p, e) ==
    /\ h[p].pc = "selecting"
    /\ settled' = e
    /\ IF IsNotFound(e)
       THEN /\ hasApiKey' = FALSE
            /\ h' = [h EXCEPT ![p] = [@ EXCEPT !.pc = "reselecting", !.selCalls = @ + 1]]
            /\ UNCHANGED <<isGenerating, error, generatedImage>>
       ELSE /\ UNCHANGED hasApiKey
            /\ AfterSelect(p, h[p])
    /\ UNCHANGED <<Inputs, user, Environment, Stores, keyCheck, Others>>

\* The second openSelectKey resolves.
ReselectResolve(p) ==
    /\ h[p].pc = "reselecting"
    /\ hasApiKey' = TRUE
    /\ settled' = "reselected"
    /\ AfterSelect(p, h[p])
    /\ UNCHANGED <<Inputs, user, Environment, Stores, keyCheck, Others>>

\* The second openSelectKey rejects with e: handleSelectKey throws, and so does
\* the handler awaiting it.
ReselectReject(p, e) ==
    /\ h[p].pc = "reselecting"
    /\ settled' = e
    /\ h' = [h EXCEPT ![p] = IdleFlow]
    /\ UNCHANGED <<Inputs, isGenerating, error, generatedImage, user, hasApiKey,
                   Environment, Stores, keyCheck, Others>>

\* generateImage settles in invocation p with result; the debit and the
\* history write return, or the one named by fault throws; finally the busy
\* flag is cleared.
GenerateSettle(p, result, fault) ==
    /\ h[p].pc = "generating"
    /\ LET o == Settle(h[p], result, fault)
       IN  /\ generatedImage' = o.generatedImage
           /\ error' = o.error
           /\ user' = o.user
           /\ account' = o.account
           /\ history' = o.history
           /\ settled' = o.stage
    /\ isGenerating' = FALSE
    /\ h' = [h EXCEPT ![p] = IdleFlow]
    /\ UNCHANGED <<Inputs, hasApiKey, Environment, keyCheck, Others>>

\* Submit events reach the form whatever the button shows.
Next ==
    \/ Mount
    \/ \E hasKey \in BOOLEAN : CheckKeyResolve(hasKey)
    \/ CheckKeyReject
    \/ \E text \in Prompts : SetPrompt(text)
    \/ \E s \in Sizes : SetSize(s)
    \/ \E p \in Slots : Submit(p)
    \/ SelectKeyClick
    \/ \E p \in Flows : SelectResolve(p)
    \/ \E p \in Flows, e \in SelectErrors : SelectReject(p, e)
    \/ \E p \in Flows : ReselectResolve(p)
    \/ \E p \in Flows, e \in SelectErrors : ReselectReject(p, e)
    \/ \E p \in Slots, result \in ClientResults :
          \E fault \in (IF result.ok THEN StoreFaults ELSE {"none"}) :
             GenerateSettle(p, result, fault)

Spec == Init /\ [][Next]_vars

\* ------------------------------------------- the request client on its own
\* generateImage is called: the request is built and generateContent awaited.
ClientCall(text, s) ==
    /\ client.phase # "awaiting"
    /\ client' = [phase |-> "awaiting",
                  request |-> [model |-> ModelName, text |-> text, aspectRatio |-> "1:1",
                               imageSize |-> s],
                  outcome |-> [null |-> TRUE], result |-> NoResult]
    /\ UNCHANGED <<Inputs, isGenerating, generatedImage, error, user, hasApiKey, aistudio,
                   Stores, keyCheck, h, Others, settled>>

\* generateContent settles and generateImage returns or throws.
ClientSettle(outcome) ==
    /\ client.phase = "awaiting"
    /\ client' = [client EXCEPT !.phase = "settled", !.outcome = outcome,
                                !.result = GenerateImage(outcome)]
    /\ UNCHANGED <<Inputs, isGenerating, generatedImage, error, user, hasApiKey, aistudio,
                   Stores, keyCheck, h, Others, settled>>

NextClient ==
    \/ \E text \in Prompts, s \in Sizes : ClientCall(text, s)
    \/ \E outcome \in ServiceOutcomes : ClientSettle(outcome)

SpecClient == Init /\ [][NextClient]_vars

\* ------------------------------------------------ the request client's claims
\* C7: for every response whose part list holds at least one part with an
\* inline image payload, generateImage returns "data:image/png;base64,"
\* followed by the payload of the first such part, unchanged, and every
\* response that agrees with it up to that part gives the same result.
C7_FirstImagePartWins ==
    (client.phase = "settled" /\ client.outcome.kind = "response") =>
        LET r == client.outcome.response
            ps == IF /\ "candidates" \in DOMAIN r
                     /\ r.candidates # <<>>
                     /\ "content" \in DOMAIN r.candidates[1]
                     /\ "parts" \in DOMAIN r.candidates[1].content
                  THEN r.candidates[1].content.parts ELSE <<>>
            images == {i \in 1..Len(ps) : "inlineData" \in DOMAIN ps[i]}
        IN  images # {} =>
              LET first == CHOOSE i \in images : \A j \in images : i <= j
              IN  /\ client.result = Returned(DataUriPrefix \o ps[first].inlineData.data)
                  /\ \A qs \in PartLists :
                        (Len(qs) >= first /\ SubSeq(qs, 1, first) = SubSeq(ps, 1, first)) =>
                            GenerateImage([kind |-> "response",
                                           response |-> [candidates |-> <<[content |-> [parts |-> qs]]>>],
                                           error |-> Null]) = client.result

\* C7 happens: a text part, then two image parts with different payloads, and
\* the reference of the first image part is what generateImage returned.
C7_Witness ==
    /\ client.phase = "settled"
    /\ client.outcome.kind = "response"
    /\ "candidates" \in DOMAIN client.outcome.response
    /\ client.outcome.response.candidates # <<>>
    /\ "content" \in DOMAIN client.outcome.response.candidates[1]
    /\ "parts" \in DOMAIN client.outcome.response.candidates[1].content
    /\ LET ps == client.outcome.response.candidates[1].content.parts
       IN  /\ Len(ps) = 3
           /\ "text" \in DOMAIN ps[1]
           /\ "inlineData" \in DOMAIN ps[2]
           /\ "inlineData" \in DOMAIN ps[3]
           /\ ps[2] # ps[3]
           /\ client.result.ok
           /\ client.result.imageUrl = "data:image/png;base64," \o ps[2].inlineData.data

\* C6: for every response with no part carrying an inline image payload (no
\* candidates, no candidate, no content, no parts, an empty part list, text
\* parts only), generateImage throws "No image generated in response".
C6_NoImagePartThrowsNoImage ==
    (client.phase = "settled" /\ client.outcome.kind = "response") =>
        LET r == client.outcome.response
            ps == IF /\ "candidates" \in DOMAIN r
                     /\ r.candidates # <<>>
                     /\ "content" \in DOMAIN r.candidates[1]
                     /\ "parts" \in DOMAIN r.candidates[1].content
                  THEN r.candidates[1].content.parts ELSE <<>>
        IN  (\A i \in 1..Len(ps) : "inlineData" \notin DOMAIN ps[i]) =>
                client.result = Thrown("No image generated in response")

\* ---------------------------------------------------- the controller's claims
\* C1: a submit event handled while the controller's balance is below the
\* image cost sets the insufficient-credits message and nothing else: no
\* invocation starts a credential selection or a generateImage call, and the
\* balance, the history and the credential flag are as they were.
C1_InsufficientCreditsRejected ==
    [][(submitted' # submitted /\ user # NoUser /\ user.credits < IMAGE_COST) =>
          /\ error' = NotEnoughMessage
          /\ h' = h
          /\ account' = account
          /\ user' = user
          /\ history' = history
          /\ hasApiKey' = hasApiKey
          /\ isGenerating' = isGenerating
          /\ generatedImage' = generatedImage]_vars

\* C1 happens: a submission was just rejected with a positive balance below the
\* cost, while no credential was selected and the provider could select one.
C1_Witness ==
    /\ settled = "rejected"
    /\ error = NotEnoughMessage
    /\ user.credits > 0
    /\ user.credits < IMAGE_COST
    /\ account = user
    /\ ~hasApiKey
    /\ "openSelectKey" \in aistudio
    /\ \A p \in Flows : h[p].pc = "idle"
    /\ history = <<>>

\* C8: when openSelectKey rejects with a message containing "Requested entity
\* was not found", the credential is marked as not selected and openSelectKey
\* is called a second time; no invocation calls it more than twice; the
\* invocation goes on (a submission: to generateImage) only when the second
\* call has resolved, which is also when the credential is marked selected; a
\* second rejection ends the invocation with no generateImage call.
C8_NotFoundRetriesOnce ==
    [][\A p \in Flows :
          /\ (h[p].pc = "selecting" /\ h'[p] # h[p] /\ Includes(settled', NotFoundText)) =>
                /\ h'[p].pc = "reselecting"
                /\ h'[p].selCalls = 2
                /\ hasApiKey' = FALSE
          /\ (h[p].pc = "reselecting" /\ h'[p] # h[p]) =>
                /\ h[p].selCalls = 2
                /\ \/ /\ settled' = "reselected"
                      /\ hasApiKey' = TRUE
                      /\ h'[p].pc = (IF p \in Slots THEN "generating" ELSE "idle")
                   \/ /\ settled' \in SelectErrors
                      /\ hasApiKey' = hasApiKey
                      /\ h'[p].pc = "idle"
          /\ h'[p].selCalls <= 2]_vars

\* C8 happens: the first openSelectKey of a submission has just rejected with
\* the not-found message and its second call is awaited, before any
\* generateImage call.
C8_Witness ==
    /\ Includes(settled, NotFoundText)
    /\ submitted = 1
    /\ h[1].pc = "reselecting"
    /\ h[1].selCalls = 2
    /\ h[0].pc = "idle"
    /\ ~hasApiKey
    /\ ~isGenerating

C3_FailureLeavesStoresUntouched ==
    [][\A p \in Slots :
          (h[p].pc # "idle" /\ h'[p].pc = "idle" /\ settled' # "success") =>
              /\ account' = account
              /\ user' = user
              /\ history' = history]_vars

\* C4: the balance of the account store is a non-negative integer in every
\* state, and a step changes it only by the debit of a submission whose
\* generateImage call succeeded.
C4_BalanceNonNegativeDebitOnly ==
    /\ [](account # NoUser => account.credits \in Nat)
    /\ [](user # NoUser => user.credits \in Nat)
    /\ [][account' # account =>
             /\ settled' \in {"success", "history"}
             /\ generatedImage' \notin {Null, ""}
             /\ \E p \in Slots : h[p].pc = "generating" /\ h'[p].pc = "idle"
             /\ account'.credits < account.credits
             /\ account'.credits >= account.credits - IMAGE_COST
             /\ account'.id = account.id]_vars

\* C4 happens: two submissions have run to their end, one after the other or
\* overlapping, and the balance has gone from twice the cost to zero.
C4_Witness ==
    /\ settled = "success"
    /\ submitted = 2
    /\ Len(history) = 2
    /\ account.credits = 0
    /\ user = account

\* C5: an invocation of handleGenerate that finds no credential selected while
\* the provider is present calls generateImage only on the step in which
\* openSelectKey resolves.
C5_GenerationOnlyAfterSelection ==
    [][\A p \in Slots :
          (/\ h[p].pc # "generating"
           /\ h'[p].pc = "generating"
           /\ "object" \in aistudio
           /\ (h[p].pc \in {"selecting", "reselecting"} \/ ~hasApiKey)) =>
              settled' \in {"resolved", "reselected"}]_vars

\* C9 as stated: at most one generateImage call is outstanding at any time.
C9_OneOutstandingCall ==
    Cardinality({p \in Slots : h[p].pc = "generating"}) <= 1

\* C9 amended: as long as every submit event has come from a submit button
\* that was neither loading nor disabled, at most one invocation of
\* handleGenerate is past the credit gate, and the busy flag is set while its
\* generateImage call is outstanding.
C9_ButtonSerialisesCalls ==
    ~bypassed =>
        /\ Cardinality({p \in Slots : h[p].pc # "idle"}) <= 1
        /\ \A p \in Slots : h[p].pc = "generating" => isGenerating

\* C9 happens: the second submission's generateImage call is outstanding, both
\* submit events having come from an enabled button.
C9_Witness ==
    /\ ~bypassed
    /\ submitted = 2
    /\ h[1].pc = "idle"
    /\ h[2].pc = "generating"
    /\ isGenerating

\* C10: when an invocation of handleGenerate that called generateImage ends,
\* either an image reference is displayed and the error message is empty, or
\* the error message is set and no image reference is displayed.
C10_SuccessOrFailedNotBoth ==
    [][\A p \in Slots :
          (h[p].pc = "generating" /\ h'[p].pc = "idle") =>
              /\ isGenerating' = FALSE
              /\ \/ (generatedImage' # Null /\ error' = "")
                 \/ (generatedImage' = Null /\ error' # "")]_vars

====
